---- MODULE Spec2Model ----
(***************************************************************************)
(* Model of byrbt_bot.py: the ByrbtBot command loop (start), the cookie    *)
(* session (_login, _save_cookies, _load_cookies) and the handlers the     *)
(* loop dispatches to.  One step of the model is one whole handler run:    *)
(* process start-up, or one input line read and handled.                   *)
(*                                                                         *)
(* An input line is a sequence of non-empty tokens; the string the code    *)
(* sees is the tokens joined by single spaces.  Tokens are TLA+ strings;   *)
(* Chars gives their characters, which the prefix tests and the regular    *)
(* expressions of the code work on.                                        *)
(***************************************************************************)
EXTENDS Integers, Sequences, FiniteSets, TLC

\* ----------------------------------------------------------------- bounds
\* cap on the number of _login invocations over all runs of the process
MaxLogins == 2

\* ------------------------------------------------------------- characters
\* the characters of every token and path of the model
Chars ==
     ("ls" :> <<"l","s">>)
  @@ ("lsx" :> <<"l","s","x">>)
  @@ ("se" :> <<"s","e">>)
  @@ ("set" :> <<"s","e","t">>)
  @@ ("dl" :> <<"d","l">>)
  @@ ("dlx" :> <<"d","l","x">>)
  @@ ("tls" :> <<"t","l","s">>)
  @@ ("tlsx" :> <<"t","l","s","x">>)
  @@ ("trm" :> <<"t","r","m">>)
  @@ ("refresh" :> <<"r","e","f","r","e","s","h">>)
  @@ ("exit" :> <<"e","x","i","t">>)
  @@ ("help" :> <<"h","e","l","p">>)
  @@ ("xyz" :> <<"x","y","z">>)
  @@ ("now" :> <<"n","o","w">>)
  @@ ("nas" :> <<"n","a","s">>)
  @@ ("tmp" :> <<"t","m","p">>)
  @@ ("ghost" :> <<"g","h","o","s","t">>)
  @@ ("movie" :> <<"m","o","v","i","e">>)
  @@ ("-l" :> <<"-","l">>)
  @@ ("-L" :> <<"-","L">>)
  @@ ("-c" :> <<"-","c">>)
  @@ ("7" :> <<"7">>)
  @@ ("7a" :> <<"7","a">>)
  @@ ("/n" :> <<"/","n">>)
  @@ ("/q" :> <<"/","q">>)
  @@ ("~/t" :> <<"~","/","t">>)
  @@ ("/m" :> <<"/","m">>)
  @@ ("/d" :> <<"/","d">>)
  @@ ("/o" :> <<"/","o">>)
  @@ ("-t" :> <<"-","t">>)
  @@ ("-p" :> <<"-","p">>)
  @@ ("-i" :> <<"-","i">>)
  @@ ("2" :> <<"2">>)
  @@ ("misc" :> <<"m","i","s","c">>)
  @@ ("free" :> <<"f","r","e","e">>)
  @@ ("foo" :> <<"f","o","o">>)
  @@ ("bar" :> <<"b","a","r">>)
  @@ ("0" :> <<"0">>)
  @@ ("8" :> <<"8">>)

Digits == {"0","1","2","3","4","5","6","7","8","9"}

\* re.I: the upper-case letters the patterns of the code can meet
UpperToLower ==
  [C |-> "c", D |-> "d", I |-> "i", L |-> "l", M |-> "m", P |-> "p",
   R |-> "r", T |-> "t"]

Lower(c) == IF c \in DOMAIN UpperToLower THEN UpperToLower[c] ELSE c

\* str.startswith(prefix), prefix without a space, on the joined line: the
\* first token decides, a shorter first token is followed by a space or the end
StartsWith(cs, p) == Len(cs) >= Len(p) /\ SubSeq(cs, 1, Len(p)) = p

\* the token ends with the characters p, compared case-insensitively (re.I)
EndsWithCI(cs, p) ==
  /\ Len(cs) >= Len(p)
  /\ \A k \in 1..Len(p) : Lower(cs[Len(cs) - Len(p) + k]) = p[k]

\* number of leading digits of a token: what (\d+) captures from its start
RECURSIVE DigitRun(_)
DigitRun(cs) ==
  IF cs = <<>> \/ cs[1] \notin Digits THEN 0 ELSE 1 + DigitRun(Tail(cs))

\* ------------------------------------------------------------------ paths
\* the home directory of the user and the working directory of the process
Home == <<"/","h">>
Cwd == <<"/","w">>

\* os.path.expanduser: a leading "~" (alone or before "/") becomes the home
Expanduser(cs) ==
  IF cs # <<>> /\ cs[1] = "~" /\ (Len(cs) = 1 \/ cs[2] = "/")
  THEN Home \o Tail(cs) ELSE cs

\* os.path.abspath: an absolute path is kept, "" is the working directory,
\* anything else is joined to the working directory
Abspath(cs) ==
  IF cs = <<>> THEN Cwd
  ELSE IF cs[1] = "/" THEN cs
  ELSE Cwd \o <<"/">> \o cs

\* os.path.isdir / os.path.exists over the directories of the model
IsDir(ds, p) == p \in ds

\* ----------------------------------------------------------------- config
\* _cat_map: the category label of a detail page -> the config bucket
\* (labels are written in pinyin here; the source has the Chinese labels)
CatMap ==
  [ dianying |-> "movie",   juji |-> "episode",  dongman |-> "anime",
    yinyue |-> "music",     zongyi |-> "show",   youxi |-> "game",
    ruanjian |-> "software", ziliao |-> "material", tiyu |-> "sport",
    jilu |-> "documentary" ]

\* ByrbtBot._get_cat
GetCat(label) == IF label \in DOMAIN CatMap THEN CatMap[label] ELSE "default"

\* config['external_config']['torrent_location']: the named locations (nas,
\* tmp) and one location per category bucket, all in the same map
TorrentLocation ==
  [ nas |-> "/n", tmp |-> "~/t",
    movie |-> "/m", default |-> "/d",
    episode |-> "/o", anime |-> "/o", music |-> "/o", show |-> "/o",
    game |-> "/o", software |-> "/o", material |-> "/o", sport |-> "/o",
    documentary |-> "/o" ]

\* config['bt_config']['category']: name -> code of the 'all' entry, "null"
\* for a name the YAML file gives no value
BtCategory == ("movie" :> "408") @@ ("misc" :> "null")

\* config['bt_config']['tag']: name -> code, "null" as above
BtTag == ("free" :> "2") @@ ("misc" :> "null")

\* the category labels a detail page may carry: one mapped, one unmapped
PageLabels == {"dianying", "qita"}

\* the file names a detail page may declare
FileNames == {"a.torrent"}

\* ------------------------------------------------------------ cookie file
\* the cookie file self._cookie_loc: absent, cut short (opened for writing
\* and not completely written), or the complete pickle of a jar
NoFile == [kind |-> "none", jar |-> 0]
Truncated == [kind |-> "truncated", jar |-> 0]
Full(j) == [kind |-> "full", jar |-> j]

\* the jar of a fresh requests.session(); the jar the session holds after
\* the n-th invocation of _login returned is n
EmptyJar == 0

\* a _load_cookies that never finds the file
CookieFileNeverExists(d) == FALSE

\* os.path.exists(self._cookie_loc)
CookieFileExists(d) == d.kind # "none"

\* ------------------------------------------------------------------ state
VARIABLES
  pc,          \* "boot", "loop" (blocked in input()), "exited", "crashed", "killed"
  disk,        \* the cookie file
  jar,         \* self._session.cookies
  nLogin,      \* invocations of _login, over all runs
  runLogins,   \* invocations of _login in this run
  lastGood,    \* the jar of the latest login redirected to index.php, 0 if none
  loginOk,     \* did the latest _login of this run see the index.php redirect
  hadFile,     \* did the cookie file exist when this run started
  dirs,        \* the directories that exist
  seedFiles,   \* the files under self._seed_path
  deleteAfter, \* self._delete_after_activation
  line,        \* the input line handled last in this run
  eff,         \* what handling it did: "net", "login", "cookie_write", ...
  dest,        \* the destination handed to start_tsm.sh by it, <<>> if none
  page,        \* what the tracker and the torrent client answered to it
  records,     \* the records it printed, in order
  steps,       \* the directory, file and process operations of it, in order
  url,         \* the listing URL it fetched, as its pieces in order, <<>> if none
  err          \* the exception that ended the run, "none" if none

vars == <<pc, disk, jar, nLogin, runLogins, lastGood, loginOk, hadFile, dirs,
          seedFiles, deleteAfter, line, eff, dest, page, records, steps, url,
          err>>

NoLine == <<"(nothing read yet)">>
NoDest == <<>>
NoPage == [ans |-> "none", label |-> "none", file |-> "none", rows |-> <<>>,
           ret |-> "none"]

\* self._seed_path, the directory the torrent files are saved in
SeedPath == <<"/","s">>

\* the directories that exist when the bot is first started: the working
\* directory, the home, the location named nas, and the seed path, which
\* __init__ creates
InitialDirs == {Cwd, Home, Chars["/n"], SeedPath}

Init ==
  /\ pc = "boot"
  /\ disk = NoFile
  /\ jar = EmptyJar
  /\ nLogin = 0
  /\ runLogins = 0
  /\ lastGood = 0
  /\ loginOk = FALSE
  /\ hadFile = FALSE
  /\ dirs = InitialDirs
  /\ seedFiles = {}
  /\ deleteAfter \in BOOLEAN
  /\ line = NoLine
  /\ eff = {}
  /\ dest = NoDest
  /\ page = NoPage
  /\ records = <<>>
  /\ steps = <<>>
  /\ url = <<>>
  /\ err = "none"

\* ------------------------------------------------------------------ login
\* what the tracker and the network make of one _login call
LoginOutcomes == {"index", "other_page", "no_network", "no_captcha"}

\* ByrbtBot._login: the exception it raises, "none" if it returns; it returns
\* in the same way whether or not the redirect is index.php
LoginErr(out) ==
  CASE out = "no_network" -> "ConnectionError"
    [] out = "no_captcha" -> "IndexError"
    [] OTHER -> "none"

\* ByrbtBot._save_cookies: open(.., 'wb') cuts the file to nothing, then
\* pickle.dump writes the jar.  how: "done", "open_fails" (the file cannot be
\* opened), "write_fails" (dump raises), "killed" (the process is killed
\* between the open and the end of the write)
SaveOutcomes == {"done", "open_fails", "write_fails", "killed"}

SaveCookies(d, j, how) ==
  CASE how = "done" -> Full(j)
    [] how = "open_fails" -> d
    [] OTHER -> Truncated

SavePc(how) ==
  CASE how = "done" -> "loop"
    [] how = "killed" -> "killed"
    [] OTHER -> "crashed"

\* _login() followed by _save_cookies(), as _load_cookies and the refresh
\* branch of start call them; j0, r0, ok0 are the jar, the login count and
\* the login result of the run before the call
LoginAndSave(j0, r0, ok0, out, how) ==
  /\ nLogin < MaxLogins
  /\ nLogin' = nLogin + 1
  /\ runLogins' = r0 + 1
  /\ IF LoginErr(out) # "none"
     THEN /\ pc' = "crashed"
          /\ err' = LoginErr(out)
          /\ eff' = {"login", "net"}
          /\ jar' = j0
          /\ loginOk' = ok0
          /\ UNCHANGED <<disk, lastGood>>
     ELSE /\ jar' = nLogin + 1
          /\ loginOk' = (out = "index")
          /\ lastGood' = IF out = "index" THEN nLogin + 1 ELSE lastGood
          /\ disk' = SaveCookies(disk, nLogin + 1, how)
          /\ pc' = SavePc(how)
          /\ err' = IF SavePc(how) = "crashed" THEN "OSError" ELSE "none"
          /\ eff' = IF how = "open_fails" THEN {"login", "net"}
                    ELSE {"login", "net", "cookie_write"}

\* python byrbt_bot.py: a new process, ByrbtBot(config).start() up to the
\* first input(): _load_cookies
Start ==
  /\ pc \in {"boot", "exited", "crashed", "killed"}
  /\ hadFile' = (disk # NoFile)
  /\ line' = NoLine
  /\ dest' = NoDest
  /\ page' = NoPage
  /\ records' = <<>>
  /\ steps' = <<>>
  /\ url' = <<>>
  /\ UNCHANGED <<dirs, seedFiles, deleteAfter>>
  /\ IF CookieFileExists(disk)
     THEN /\ UNCHANGED <<disk, nLogin, lastGood>>
          /\ runLogins' = 0
          /\ loginOk' = FALSE
          /\ eff' = {}
          /\ IF disk.kind = "full"
             THEN jar' = disk.jar /\ pc' = "loop" /\ err' = "none"
             ELSE jar' = EmptyJar /\ pc' = "crashed" /\ err' = "EOFError"
     ELSE \E out \in LoginOutcomes, how \in SaveOutcomes :
            LoginAndSave(EmptyJar, 0, FALSE, out, how)

\* --------------------------------------------------------------- dispatch
\* the characters of the first token of the line, <<>> for an empty line
Verb(ln) == IF ln = <<>> THEN <<>> ELSE Chars[ln[1]]

\* a chain that tests refresh by prefix, as it does the verbs with arguments
DispatchRefreshByPrefix(ln) ==
  CASE StartsWith(Verb(ln), Chars["refresh"]) -> "refresh"
    [] ln = <<"exit">> -> "exit"
    [] ln = <<"help">> -> "help"
    [] OTHER ->
       IF StartsWith(Verb(ln), Chars["ls"]) THEN "list"
       ELSE IF StartsWith(Verb(ln), Chars["se"]) THEN "search"
       ELSE IF StartsWith(Verb(ln), Chars["dl"]) THEN "download"
       ELSE IF StartsWith(Verb(ln), Chars["tls"]) THEN "list_torrent"
       ELSE IF StartsWith(Verb(ln), Chars["trm"]) THEN "remove_torrent"
       ELSE "invalid"

\* the chain of tests of the while loop of start, in its order
Dispatch(ln) ==
  CASE ln = <<"refresh">> -> "refresh"
    [] ln = <<"exit">> -> "exit"
    [] ln = <<"help">> -> "help"
    [] OTHER ->
       IF StartsWith(Verb(ln), Chars["ls"]) THEN "list"
       ELSE IF StartsWith(Verb(ln), Chars["se"]) THEN "search"
       ELSE IF StartsWith(Verb(ln), Chars["dl"]) THEN "download"
       ELSE IF StartsWith(Verb(ln), Chars["tls"]) THEN "list_torrent"
       ELSE IF StartsWith(Verb(ln), Chars["trm"]) THEN "remove_torrent"
       ELSE "invalid"

\* the input lines of the model
InputLines ==
  { <<"refresh">>, <<"refresh", "now">>, <<"exit">>, <<"help">>,
    <<"xyz">>, <<>>,
    <<"ls">>, <<"lsx">>, <<"se">>, <<"set">>,
    <<"ls", "-c", "movie", "-t", "free", "-p", "2">>,
    <<"ls", "-c", "misc">>, <<"ls", "-c", "ghost">>, <<"ls", "-p", "7a">>,
    <<"se", "-i", "foo", "bar">>, <<"se", "-p", "2", "-i", "foo">>,
    <<"tls">>, <<"tlsx">>, <<"trm", "7">>, <<"trm">>, <<"trm", "now">>,
    <<"trm", "now", "trm", "7">>,
    <<"dl">>, <<"dlx">>, <<"dlx", "dl", "7">>, <<"dl", "now", "dl", "7">>,
    <<"dl", "7">>, <<"dl", "7a">>,
    <<"dl", "7", "-l", "nas">>, <<"dl", "7", "-l", "tmp">>,
    <<"dl", "7", "-L", "nas">>,
    <<"dl", "7", "-l", "ghost">>, <<"dl", "7", "-l", "nas", "now">>,
    <<"dl", "7", "-c", "/n">>, <<"dl", "7", "-c", "/q">> }

\* the input lines each branch of the loop takes
LinesOf(kind) == { ln \in InputLines : Dispatch(ln) = kind }
RefreshLines == LinesOf("refresh")
ExitLines == LinesOf("exit")
HelpLines == LinesOf("help")
ListLines == LinesOf("list")
SearchLines == LinesOf("search")
DownloadLines == LinesOf("download")
ListTorrentLines == LinesOf("list_torrent")
RemoveTorrentLines == LinesOf("remove_torrent")
InvalidLines == LinesOf("invalid")

\* the step of the loop for a line that changes nothing but what was read
Quiet(ln) ==
  /\ line' = ln
  /\ eff' = {}
  /\ dest' = NoDest
  /\ page' = NoPage
  /\ records' = <<>>
  /\ steps' = <<>>
  /\ url' = <<>>
  /\ UNCHANGED <<pc, disk, jar, nLogin, runLogins, lastGood, loginOk, hadFile,
                 dirs, seedFiles, deleteAfter, err>>

\* action_str == 'refresh'
Refresh ==
  /\ pc = "loop"
  /\ \E ln \in RefreshLines, out \in LoginOutcomes, how \in SaveOutcomes :
       /\ line' = ln
       /\ dest' = NoDest
       /\ page' = NoPage
       /\ records' = <<>>
       /\ steps' = <<>>
       /\ url' = <<>>
       /\ LoginAndSave(jar, runLogins, loginOk, out, how)
       /\ UNCHANGED <<hadFile, dirs, seedFiles, deleteAfter>>

\* action_str == 'exit'
Exit ==
  /\ pc = "loop"
  /\ \E ln \in ExitLines :
       /\ pc' = "exited"
       /\ line' = ln
       /\ eff' = {}
       /\ dest' = NoDest
       /\ page' = NoPage
       /\ records' = <<>>
       /\ steps' = <<>>
       /\ url' = <<>>
       /\ UNCHANGED <<disk, jar, nLogin, runLogins, lastGood, loginOk, hadFile,
                      dirs, seedFiles, deleteAfter, err>>

\* action_str == 'help'
Help ==
  /\ pc = "loop"
  /\ \E ln \in HelpLines : Quiet(ln)

\* the else branch: 'invalid operation'
Invalid ==
  /\ pc = "loop"
  /\ \E ln \in InvalidLines : Quiet(ln)

\* --------------------------------------------------------------- download
Min(S) == CHOOSE x \in S : \A y \in S : x <= y

\* the token is the characters p, compared case-insensitively
EqualsCI(cs, p) == Len(cs) = Len(p) /\ EndsWithCI(cs, p)

\* re.findall(r'<word> (\d+)', op_str, re.I): the places where a token ends
\* with the word and the next token starts with a digit
IdPlaces(ln, word) ==
  { i \in 1..(Len(ln) - 1) :
      EndsWithCI(Chars[ln[i]], word) /\ DigitRun(Chars[ln[i + 1]]) >= 1 }

\* id_re[0]: the digits captured at the first place
IdStr(ln, word) ==
  LET i == Min(IdPlaces(ln, word))
  IN SubSeq(Chars[ln[i + 1]], 1, DigitRun(Chars[ln[i + 1]]))

\* re.findall(r' <flag> (.+)', op_str, re.I): the places where a token after
\* the first is the flag and something follows it
FlagPlaces(ln, flag) ==
  { i \in 2..(Len(ln) - 1) : EqualsCI(Chars[ln[i]], flag) }

\* the greedy (.+) of the first match: every token up to the end of the line
FlagRest(ln, flag) == SubSeq(ln, Min(FlagPlaces(ln, flag)) + 1, Len(ln))

\* self.config['external_config']['torrent_location'][loc[0]], '' on
\* KeyError; a key of the config is one token
NamedLocation(rest) ==
  IF Len(rest) = 1 /\ rest[1] \in DOMAIN TorrentLocation
  THEN Chars[TorrentLocation[rest[1]]]
  ELSE <<>>

\* a resolution that takes the location without the os.path.isdir test
ResolveLocationUnchecked(ds, loc_str, cat) == Abspath(Expanduser(loc_str))

\* lines 348-351: the directory if it is one, else the default of the category
ResolveLocation(ds, loc_str, cat) ==
  LET p == Abspath(Expanduser(loc_str))
  IN IF IsDir(ds, p) THEN p
     ELSE Abspath(Expanduser(Chars[TorrentLocation[cat]]))

\* what the tracker answers to a download: the GET of the detail page fails,
\* the page lacks the name link or the type span, the GET of the torrent
\* file fails, or all of it succeeds
DetailAnswers == {"no_network", "malformed", "no_file", "ok"}

\* the exit status of script/start_tsm.sh
ExitStatuses == {"zero", "nonzero"}

\* a download that writes the torrent file before it creates the destination
DownloadStepsWriteFirst(p, made, del) ==
  << [op |-> "get", at |-> <<>>],
     [op |-> "write", at |-> SeedPath] >>
  \o (IF made THEN <<[op |-> "mkdir", at |-> p]>> ELSE <<>>)
  \o <<[op |-> "run", at |-> p]>>
  \o (IF del THEN <<[op |-> "rm", at |-> SeedPath]>> ELSE <<>>)

\* lines 353-367 in their order: the destination is created when it does
\* not exist, the torrent file is fetched and written under the seed path,
\* start_tsm.sh is run on it with the destination, and the file is removed
\* when delete_after_activation is set
DownloadSteps(p, made, del) ==
  (IF made THEN <<[op |-> "mkdir", at |-> p]>> ELSE <<>>)
  \o << [op |-> "get", at |-> <<>>],
        [op |-> "write", at |-> SeedPath],
        [op |-> "run", at |-> p] >>
  \o (IF del THEN <<[op |-> "rm", at |-> SeedPath]>> ELSE <<>>)

\* the operations done when the GET of the torrent file raises
StepsToGet(sq) ==
  SubSeq(sq, 1, Min({ i \in 1..Len(sq) : sq[i].op = "get" }))

\* ByrbtBot.download_torrent as a function of the line, the directories,
\* delete_after_activation, the answer of the tracker and the category label
\* of the detail page
DownloadResult(ln, ds, del, ans, label) ==
  LET stop(e, f) == [err |-> e, eff |-> f, dest |-> NoDest, mk |-> {},
                     wrote |-> FALSE, deleted |-> FALSE, steps |-> <<>>]
  IN
  IF IdPlaces(ln, Chars["dl"]) = {} THEN stop("none", {})
  ELSE IF ans = "no_network" THEN stop("ConnectionError", {"net"})
  ELSE IF ans = "malformed" THEN stop("IndexError", {"net"})
  ELSE IF FlagPlaces(ln, Chars["-l"]) = {}
       THEN \* loc_str is the list findall returned: expanduser raises
            stop("TypeError", {"net"})
  ELSE
    LET loc_str == NamedLocation(FlagRest(ln, Chars["-l"]))
        p == ResolveLocation(ds, loc_str, GetCat(label))
        made == IF p \in ds THEN {} ELSE {"mkdir"}
        all == DownloadSteps(p, p \notin ds, del)
    IN IF ans = "no_file"
       THEN [err |-> "ConnectionError", eff |-> {"net"} \cup made,
             dest |-> NoDest, mk |-> {p}, wrote |-> FALSE,
             deleted |-> FALSE, steps |-> StepsToGet(all)]
       ELSE [err |-> "none",
             eff |-> {"net", "torrent_write", "proc"} \cup made,
             dest |-> p, mk |-> {p}, wrote |-> TRUE,
             deleted |-> del, steps |-> all]

\* what the tracker and start_tsm.sh answer to one download: no detail page
\* or one without the name link and the type span, or a detail page with its
\* category label and file name, and then no torrent file, or the torrent
\* file and the exit status of the script
DetailReplies ==
  { [NoPage EXCEPT !.ans = a] : a \in {"no_network", "malformed"} }
  \cup { [ans |-> "no_file", label |-> l, file |-> f, rows |-> <<>>,
          ret |-> "none"] : l \in PageLabels, f \in FileNames }
  \cup { [ans |-> "ok", label |-> l, file |-> f, rows |-> <<>>, ret |-> x] :
          l \in PageLabels, f \in FileNames, x \in ExitStatuses }

\* action_str.startswith('dl')
DownloadTorrent ==
  /\ pc = "loop"
  /\ \E ln \in DownloadLines, reply \in DetailReplies :
       /\ \E r \in {DownloadResult(ln, dirs, deleteAfter, reply.ans,
                                    reply.label)},
             name \in {reply.file} :
             /\ line' = ln
             /\ eff' = r.eff
             /\ dest' = r.dest
             /\ page' = IF r.eff = {} THEN NoPage
                        ELSE [reply EXCEPT
                                !.ret = IF r.wrote THEN @ ELSE "none"]
             /\ records' = <<>>
             /\ steps' = r.steps
             /\ url' = <<>>
             /\ err' = r.err
             /\ pc' = IF r.err = "none" THEN "loop" ELSE "crashed"
             /\ dirs' = dirs \cup r.mk
             /\ seedFiles' = IF r.wrote
                             THEN IF r.deleted THEN seedFiles \ {name}
                                  ELSE seedFiles \cup {name}
                             ELSE seedFiles
       /\ UNCHANGED <<disk, jar, nLogin, runLogins, lastGood, loginOk, hadFile,
                      deleteAfter>>

\* action_str.startswith('tls'): os.system('transmission-remote -l')
ListTorrent ==
  /\ pc = "loop"
  /\ \E ln \in ListTorrentLines :
       /\ line' = ln
       /\ eff' = {"proc"}
       /\ dest' = NoDest
       /\ page' = NoPage
       /\ records' = <<>>
       /\ steps' = <<>>
       /\ url' = <<>>
       /\ UNCHANGED <<pc, disk, jar, nLogin, runLogins, lastGood, loginOk,
                      hadFile, dirs, seedFiles, deleteAfter, err>>

\* action_str.startswith('trm'): ByrbtBot.remove_torrent
RemoveTorrent ==
  /\ pc = "loop"
  /\ \E ln \in RemoveTorrentLines :
       /\ line' = ln
       /\ eff' = IF IdPlaces(ln, Chars["trm"]) = {} THEN {} ELSE {"proc"}
       /\ dest' = NoDest
       /\ page' = NoPage
       /\ records' = <<>>
       /\ steps' = <<>>
       /\ url' = <<>>
       /\ UNCHANGED <<pc, disk, jar, nLogin, runLogins, lastGood, loginOk,
                      hadFile, dirs, seedFiles, deleteAfter, err>>

\* ------------------------------------------------------- list and search
\* re.findall(r'<flag> (.+?) ', op_str + ' ', re.I): the places where a
\* token ends with the flag and another token follows
OptPlaces(ln, flag) ==
  { i \in 1..(Len(ln) - 1) : EndsWithCI(Chars[ln[i]], flag) }

\* the lazy (.+?) of the first match: the next token
OptValue(ln, flag) == ln[Min(OptPlaces(ln, flag)) + 1]

\* a page pattern that takes a token that only starts with a digit
PagePlacesDigitPrefix(ln) ==
  { i \in OptPlaces(ln, Chars["-p"]) : DigitRun(Chars[ln[i + 1]]) >= 1 }

\* re.findall(r'-p (\d+?) ', ..): as above, the next token all digits
PagePlaces(ln) ==
  { i \in OptPlaces(ln, Chars["-p"]) :
      DigitRun(Chars[ln[i + 1]]) = Len(Chars[ln[i + 1]]) }

\* the value the code looks up for a flag: "KeyError" when the name is not a
\* key of the map, '' when the flag is absent or the map gives None
Lookup(ln, flag, map) ==
  IF OptPlaces(ln, flag) = {} THEN ""
  ELSE LET name == OptValue(ln, flag)
       IN IF name \notin DOMAIN map THEN "KeyError"
          ELSE IF map[name] = "null" THEN "" ELSE map[name]

\* a builder that renders the tag before the category
GetListUrlTagFirst(ln) ==
  LET cat_str == Lookup(ln, Chars["-c"], BtCategory)
      tag_str == Lookup(ln, Chars["-t"], BtTag)
      page_num_str == IF PagePlaces(ln) = {} THEN "0"
                      ELSE ln[Min(PagePlaces(ln)) + 1]
  IN <<"torrents.php?">>
     \o (IF tag_str # "" THEN <<"spstate=", tag_str, "&">> ELSE <<>>)
     \o (IF cat_str # "" THEN <<"cat=", cat_str, "&">> ELSE <<>>)
     \o <<"page=", page_num_str>>

\* ByrbtBot._get_list_url, for a line whose lookups do not raise
GetListUrl(ln) ==
  LET cat_str == Lookup(ln, Chars["-c"], BtCategory)
      tag_str == Lookup(ln, Chars["-t"], BtTag)
      page_num_str == IF PagePlaces(ln) = {} THEN "0"
                      ELSE ln[Min(PagePlaces(ln)) + 1]
  IN <<"torrents.php?">>
     \o (IF cat_str # "" THEN <<"cat=", cat_str, "&">> ELSE <<>>)
     \o (IF tag_str # "" THEN <<"spstate=", tag_str, "&">> ELSE <<>>)
     \o <<"page=", page_num_str>>

\* does _get_list_url raise KeyError on the line
ListUrlRaises(ln) ==
  \/ Lookup(ln, Chars["-c"], BtCategory) = "KeyError"
  \/ Lookup(ln, Chars["-t"], BtTag) = "KeyError"

\* '+'.join of a sequence of tokens
RECURSIVE JoinPlus(_)
JoinPlus(ts) ==
  IF ts = <<>> THEN <<>>
  ELSE IF Len(ts) = 1 THEN ts
  ELSE <<ts[1], "+">> \o JoinPlus(Tail(ts))

\* ByrbtBot._get_search_query
GetSearchQuery(ln) ==
  LET at == { i \in 1..Len(ln) : ln[i] = "-i" }
  IN IF at = {} THEN <<>> ELSE JoinPlus(SubSeq(ln, Min(at) + 1, Len(ln)))

\* _tag_map: the class of a discount marker -> the label printed for it
\* (labels are written in pinyin here; the source has the Chinese labels)
TagMap ==
  [ free |-> "mianfei", twoup |-> "2x shangchuan",
    twoupfree |-> "mianfei&2x shangchuan", halfdown |-> "50% xiazai",
    twouphalfdown |-> "50% xiazai&2x shangchuan",
    thirtypercent |-> "30% xiazai" ]

\* ByrbtBot._get_tag
GetTag(tag) == IF tag \in DOMAIN TagMap THEN TagMap[tag] ELSE ""

\* a tr of the torrents table: the header row, or a data row with the href
\* of its detail link, as pieces, and the classes of its b/font markers
HeaderRow == [kind |-> "header", href |-> <<>>, marks |-> {}]
DataRow(href, marks) == [kind |-> "data", href |-> href, marks |-> marks]

\* the href of the detail link of torrent id, as the tracker writes it
DetailHref(id) == <<"details.php?id=", id, "&", "hit=1">>

\* re.findall(r'id=(\d+)&', href): the places where the piece after an id=
\* is all digits and an & follows it
HrefIdPlaces(href) ==
  { i \in 1..(Len(href) - 2) :
      /\ href[i] = "details.php?id="
      /\ DigitRun(Chars[href[i + 1]]) = Len(Chars[href[i + 1]])
      /\ href[i + 2] = "&" }

\* can lines 236-263 index everything they index in the row
Parsable(row) == row.kind = "data" /\ HrefIdPlaces(row.href) # {}

\* a loop body that leaves the hot marker among the tags it pops from
RowRecordsKeepHot(row) ==
  LET seed_id == row.href[Min(HrefIdPlaces(row.href)) + 1]
      is_hot == "hot" \in row.marks
  IN IF row.marks = {}
     THEN { [id |-> seed_id, is_hot |-> is_hot, tag |-> ""] }
     ELSE { [id |-> seed_id, is_hot |-> is_hot, tag |-> GetTag(t)] :
            t \in row.marks }

\* lines 242-255: the records the loop body can print for a row; tags.pop()
\* takes any one of the markers that are left
RowRecords(row) ==
  LET seed_id == row.href[Min(HrefIdPlaces(row.href)) + 1]
      is_hot == "hot" \in row.marks
      tags == row.marks \ {"hot"}
  IN IF tags = {}
     THEN { [id |-> seed_id, is_hot |-> is_hot, tag |-> ""] }
     ELSE { [id |-> seed_id, is_hot |-> is_hot, tag |-> GetTag(t)] :
            t \in tags }

\* the sequences of records the loop can print for a sequence of rows
RECURSIVE RecordSeqs(_)
RecordSeqs(rows) ==
  IF rows = <<>> THEN { <<>> }
  ELSE { <<r>> \o t : r \in RowRecords(Head(rows)), t \in RecordSeqs(Tail(rows)) }

\* a loop that starts at the first row
PrintedFromFirst(content) ==
  LET bad == { i \in 1..Len(content) : ~Parsable(content[i]) }
  IN SubSeq(content, 1, IF bad = {} THEN Len(content) ELSE Min(bad) - 1)

\* for i in range(1, len(content_list)): the rows from the second on, up to
\* the first the loop body cannot index
Printed(content) ==
  LET bad == { i \in 2..Len(content) : ~Parsable(content[i]) }
  IN SubSeq(content, 2, IF bad = {} THEN Len(content) ELSE Min(bad) - 1)

\* the answer of the tracker to a listing: no answer, or the tr rows of the
\* torrents table of the page
NoAnswer == [NoPage EXCEPT !.ans = "no_network"]
Listing(content) ==
  [NoPage EXCEPT
     !.ans = IF \A i \in 2..Len(content) : Parsable(content[i])
             THEN "ok" ELSE "malformed",
     !.rows = content]

\* ByrbtBot._pretty_print_page after the URL is built: the GET, then one
\* record printed per row
PrettyPrintPage(ln, u, raises, reply) ==
  /\ line' = ln
  /\ dest' = NoDest
  /\ steps' = <<>>
  /\ IF raises
     THEN /\ url' = <<>>
          /\ page' = NoPage
          /\ records' = <<>>
          /\ eff' = {}
          /\ err' = "KeyError"
          /\ pc' = "crashed"
     ELSE /\ url' = u
          /\ page' = reply
          /\ records' \in RecordSeqs(Printed(reply.rows))
          /\ eff' = {"net"}
          /\ err' = CASE reply.ans = "no_network" -> "ConnectionError"
                      [] reply.ans = "malformed" -> "IndexError"
                      [] OTHER -> "none"
          /\ pc' = IF reply.ans = "ok" THEN "loop" ELSE "crashed"
  /\ UNCHANGED <<disk, jar, nLogin, runLogins, lastGood, loginOk, hadFile,
                 dirs, seedFiles, deleteAfter>>

\* ByrbtBot.list over a set of lines and a set of answers
ListOver(lines, replies) ==
  /\ pc = "loop"
  /\ \E ln \in lines, reply \in replies :
       PrettyPrintPage(ln, GetListUrl(ln), ListUrlRaises(ln), reply)

\* ByrbtBot.search over a set of lines and a set of answers
SearchOver(lines, replies) ==
  /\ pc = "loop"
  /\ \E ln \in lines, reply \in replies :
       \E query \in {GetSearchQuery(ln)} :
         PrettyPrintPage(ln,
                         GetListUrl(ln)
                           \o (IF query # <<>> THEN <<"&">> \o query ELSE <<>>),
                         ListUrlRaises(ln), reply)

\* the answers to a listing in the command loop: no answer, a page with a
\* row that lacks its detail link, a page with one row
ListReplies ==
  { NoAnswer,
    Listing(<<HeaderRow, DataRow(<<"details.php?id=", "7">>, {})>>),
    Listing(<<HeaderRow, DataRow(DetailHref("7"), {"hot", "free"})>>) }

\* action_str.startswith('ls'): ByrbtBot.list
List == ListOver(ListLines, ListReplies)

\* action_str.startswith('se'): ByrbtBot.search
Search == SearchOver(SearchLines, ListReplies)

\* ---------------------------------------------------------- query builder
\* list and search lines for _get_list_url and _get_search_query: every
\* combination of -c, -t and -p, the options in another order, names the
\* configuration maps to nothing or does not have, pages that are not
\* numbers, and search lines with tokens after -i
QueryLines ==
  { <<"ls">>, <<"ls", "-c", "movie">>, <<"ls", "-t", "free">>,
    <<"ls", "-p", "2">>, <<"ls", "-c", "movie", "-t", "free">>,
    <<"ls", "-c", "movie", "-p", "2">>, <<"ls", "-t", "free", "-p", "2">>,
    <<"ls", "-c", "movie", "-t", "free", "-p", "2">>,
    <<"ls", "-p", "2", "-t", "free", "-c", "movie">>,
    <<"ls", "-c", "misc">>, <<"ls", "-t", "misc">>,
    <<"ls", "-c", "ghost">>, <<"ls", "-t", "ghost">>,
    <<"ls", "-p", "7a">>, <<"ls", "-p">>, <<"ls", "-p", "0">>,
    <<"se">>, <<"se", "-i", "foo", "bar">>, <<"se", "-i", "foo">>,
    <<"se", "-p", "2", "-i", "foo">>, <<"se", "-c", "movie", "-i", "foo">>,
    <<"se", "-i", "foo", "-p", "2">>, <<"se", "-i", "foo", "-c", "ghost">>,
    <<"se", "-c", "misc", "-p", "7a", "-i", "bar", "foo">> }

QueryListLines == { ln \in QueryLines : Dispatch(ln) = "list" }
QuerySearchLines == { ln \in QueryLines : Dispatch(ln) = "search" }

\* ByrbtBot.list on the query lines
QueryList == ListOver(QueryListLines, ListReplies)

\* ByrbtBot.search on the query lines
QuerySearch == SearchOver(QuerySearchLines, ListReplies)

NextQuery ==
  \/ Start
  \/ QueryList
  \/ QuerySearch

SpecQuery == Init /\ [][NextQuery]_vars

\* -------------------------------------------------------- record extractor
\* the most data rows of a listing page
MaxRows == 2

\* the data rows of the pages: no marker, hot alone, hot with two discount
\* markers, a marker _tag_map does not have
PageRows ==
  { DataRow(DetailHref("7"), {}),
    DataRow(DetailHref("8"), {"hot"}),
    DataRow(DetailHref("7"), {"hot", "free", "twoup"}),
    DataRow(DetailHref("8"), {"new"}) }

\* the pages with a header row and up to MaxRows data rows
PageReplies ==
  { Listing(<<HeaderRow>> \o rs) :
      rs \in UNION { [1..n -> PageRows] : n \in 0..MaxRows } }

\* ByrbtBot.list on the pages
PageList == ListOver({ <<"ls">> }, PageReplies)

\* ByrbtBot.search on the pages
PageSearch == SearchOver({ <<"se", "-i", "foo">> }, PageReplies)

NextPage ==
  \/ Start
  \/ PageList
  \/ PageSearch

SpecPage == Init /\ [][NextPage]_vars

\* ------------------------------------------------------------------- spec
Next ==
  \/ Start
  \/ Refresh
  \/ Exit
  \/ Help
  \/ List
  \/ Search
  \/ DownloadTorrent
  \/ ListTorrent
  \/ RemoveTorrent
  \/ Invalid

Spec == Init /\ [][Next]_vars

\* ----------------------------------------------------------------- claims
\* the download lines with a torrent id, by the location option they carry
IdLines == { ln \in DownloadLines : IdPlaces(ln, Chars["dl"]) # {} }
PlainLines ==
  { ln \in IdLines :
      FlagPlaces(ln, Chars["-l"]) = {} /\ FlagPlaces(ln, Chars["-c"]) = {} }
CustomLines ==
  { ln \in IdLines :
      /\ FlagPlaces(ln, Chars["-l"]) = {}
      /\ FlagPlaces(ln, Chars["-c"]) # {}
      /\ Len(FlagRest(ln, Chars["-c"])) = 1 }
NamedLines ==
  { ln \in IdLines :
      /\ FlagPlaces(ln, Chars["-l"]) # {}
      /\ Len(FlagRest(ln, Chars["-l"])) = 1
      /\ FlagRest(ln, Chars["-l"])[1] \in DOMAIN TorrentLocation }
UnknownNameLines ==
  { ln \in IdLines : FlagPlaces(ln, Chars["-l"]) # {} } \ NamedLines

\* the configured default location of the category of the detail page
CategoryDefault(label) ==
  Abspath(Expanduser(Chars[TorrentLocation[GetCat(label)]]))

\* the step handles a download line and the tracker answers all of it
HandlesDownload(lines) ==
  pc = "loop" /\ line' \in lines /\ page'.ans = "ok"

\* C1: every failure while handling a command after startup is contained to
\* that command: the run ends with an exception only before the first line
\* is read, never while a line is handled.
C1_FailuresContained == pc = "crashed" => line = NoLine

\* C2: a complete cookie file on disk always holds the jar of the most
\* recent login that was redirected to index.php; a login that was not
\* leaves no jar of its own on disk.
C2_DiskIsLastGoodJar == disk.kind = "full" => disk.jar = lastGood /\ lastGood # 0

\* C3: cookie persistence is atomic: whatever happens during a save, the
\* cookie file is never left empty or partially written.
C3_AtomicSave == disk.kind # "truncated"

\* C4: a dl <id> line with neither -l nor -c, on a well-formed detail page,
\* resolves to the default location of the category and goes on to fetch,
\* write and register the torrent.
C4_DefaultLocation ==
  [][HandlesDownload(PlainLines) =>
       /\ dest' = CategoryDefault(page'.label)
       /\ {"net", "torrent_write", "proc"} \subseteq eff']_vars

\* C5: with -c <path> the destination is the path when it is an existing
\* directory and the default of the category when it is not, and the
\* command does not fail.
C5_CustomPath ==
  [][HandlesDownload(CustomLines) =>
       LET p == Chars[FlagRest(line', Chars["-c"])[1]]
       IN /\ err' = "none"
          /\ dest' = IF p \in dirs THEN p ELSE CategoryDefault(page'.label)]_vars

\* C6: with -l <name> and the name not in the configured map, the command
\* does not crash and the destination is the default of the category.
C6_UnknownNameFallsBack ==
  [][HandlesDownload(UnknownNameLines) =>
       err' = "none" /\ dest' = CategoryDefault(page'.label)]_vars

\* the configured path of the name of a line of NamedLines
ConfiguredPath(ln) ==
  Abspath(Expanduser(Chars[TorrentLocation[FlagRest(ln, Chars["-l"])[1]]]))

\* C7 as stated: with -l <name> and the name in the configured map, the
\* destination handed to the torrent client is the configured path.
C7_NamedLocationUsed ==
  [][HandlesDownload(NamedLines) => dest' = ConfiguredPath(line')]_vars

\* C7, amended: with -l <name> and the name in the configured map, the
\* destination handed to the torrent client is the configured path when
\* that path is an existing directory, and the default location of the
\* category of the torrent when it is not.
C7_NamedLocationIfDir ==
  [][HandlesDownload(NamedLines) =>
       dest' = IF ConfiguredPath(line') \in dirs
               THEN ConfiguredPath(line')
               ELSE CategoryDefault(page'.label)]_vars

\* a named location that is a directory was handed to the torrent client
C7_Witness ==
  /\ line = <<"dl", "7", "-l", "nas">>
  /\ page.ans = "ok"
  /\ dest = Chars["/n"]
  /\ "proc" \in eff

\* the verbs of the command grammar
RecognizedVerbs == {"ls", "se", "dl", "tls", "trm", "refresh", "help", "exit"}

\* C8: a line whose verb is not a recognized verb is invalid and has no
\* side effect: no fetch, no file write, no external process.
C8_OnlyVerbsDispatched ==
  (line # NoLine /\ (line = <<>> \/ line[1] \notin RecognizedVerbs))
    => eff = {}

\* C9: once the loop runs, _login is invoked only by the line `refresh`,
\* and once per such line; no other line invokes it, whatever the state of
\* the session.
C9_LoginOnlyOnRefresh ==
  [][pc = "loop" =>
       \/ nLogin' = nLogin
       \/ line' = <<"refresh">> /\ nLogin' = nLogin + 1]_vars

\* a listing was fetched after a login that failed, and no login was made
C9_Witness ==
  /\ pc = "loop"
  /\ runLogins >= 1
  /\ ~loginOk
  /\ line \in ListLines
  /\ "net" \in eff
  /\ "login" \notin eff

FlagAt(ln, flag) == { i \in 1..(Len(ln) - 1) : ln[i] = flag }
Given(ln, flag) == FlagAt(ln, flag) # {}
ValueOf(ln, flag) == ln[Min(FlagAt(ln, flag)) + 1]

\* is a token a non-negative integer
IsNumber(t) ==
  /\ Chars[t] # <<>>
  /\ \A i \in 1..Len(Chars[t]) : Chars[t][i] \in Digits

\* does the option name a key a configuration map gives a code for
Resolves(ln, flag, map) ==
  /\ Given(ln, flag)
  /\ ValueOf(ln, flag) \in DOMAIN map
  /\ map[ValueOf(ln, flag)] # "null"

\* the page of a line: the token after the first -p that is followed by a
\* number, 0 without one
PageGiven(ln) == { i \in FlagAt(ln, "-p") : IsNumber(ln[i + 1]) }
PageOfLine(ln) == IF PageGiven(ln) = {} THEN "0" ELSE ln[Min(PageGiven(ln)) + 1]

\* the URL of the options of a line: category, tag, page, each name as its
\* configured code
ExpectedUrl(ln) ==
  <<"torrents.php?">>
  \o (IF Resolves(ln, "-c", BtCategory)
      THEN <<"cat=", BtCategory[ValueOf(ln, "-c")], "&">> ELSE <<>>)
  \o (IF Resolves(ln, "-t", BtTag)
      THEN <<"spstate=", BtTag[ValueOf(ln, "-t")], "&">> ELSE <<>>)
  \o <<"page=", PageOfLine(ln)>>

\* the list lines whose names are valid: every -c and -t names a key with a
\* code, every -p is followed by a number
ComboLines ==
  { ln \in QueryListLines :
      /\ Given(ln, "-c") => Resolves(ln, "-c", BtCategory)
      /\ Given(ln, "-t") => Resolves(ln, "-t", BtTag)
      /\ Given(ln, "-p") => PageGiven(ln) # {} }

\* the parameters a URL has, the parameters a line supplies
ParamsOf(u) == { u[i] : i \in { j \in DOMAIN u : u[j] \in {"cat=", "spstate=", "page="} } }
SuppliedParams(ln) ==
  (IF Given(ln, "-c") THEN {"cat="} ELSE {})
  \cup (IF Given(ln, "-t") THEN {"spstate="} ELSE {})
  \cup (IF Given(ln, "-p") THEN {"page="} ELSE {})

\* C11 as stated: for a list line with valid names, the URL has exactly the
\* parameters category, tag, page that the line supplies
C11_ExactlySupplied ==
  line \in ComboLines => ParamsOf(url) = SuppliedParams(line)

\* C11: for a list line with valid names, the URL has the category and the
\* tag exactly when the line supplies them, each as its configured code, and
\* always the page, the supplied one or 0, in the order category, tag, page
C11_SuppliedAndPage ==
  line \in ComboLines => url = ExpectedUrl(line)

C11_Witness ==
  /\ line = <<"ls", "-p", "2", "-t", "free", "-c", "movie">>
  /\ url = <<"torrents.php?", "cat=", "408", "&", "spstate=", "2", "&",
             "page=", "2">>

\* the options of a line: the tokens before the first -i
OptionPart(ln) ==
  LET at == { i \in 1..Len(ln) : ln[i] = "-i" }
  IN IF at = {} THEN ln ELSE SubSeq(ln, 1, Min(at) - 1)

\* the search terms of a line: the tokens after the first -i
TermsPart(ln) ==
  LET at == { i \in 1..Len(ln) : ln[i] = "-i" }
  IN IF at = {} THEN <<>> ELSE SubSeq(ln, Min(at) + 1, Len(ln))

\* C12: a list or search line whose -c or -t value does not resolve through
\* the configured map is not aborted, its fetch is issued, and its URL is
\* the one of the line without that filter
C12_UnresolvedIsNoFilter ==
  ( /\ line \in QueryLines
    /\ TermsPart(line) = <<>>
    /\ \/ Given(line, "-c") /\ ~Resolves(line, "-c", BtCategory)
       \/ Given(line, "-t") /\ ~Resolves(line, "-t", BtTag) )
  => err # "KeyError" /\ "net" \in eff /\ url = ExpectedUrl(line)

\* C13: for a search line with -i, the URL is the one of the options before
\* -i, followed by every token after -i, in order, joined with +
C13_QueryConsumesRest ==
  ( /\ line \in QuerySearchLines
    /\ TermsPart(line) # <<>> )
  => LET head == ExpectedUrl(OptionPart(line))
         terms == TermsPart(line)
         q == SubSeq(url, Len(head) + 2, Len(url))
     IN /\ Len(url) = Len(head) + 2 * Len(terms)
        /\ SubSeq(url, 1, Len(head)) = head
        /\ url[Len(head) + 1] = "&"
        /\ \A j \in 1..Len(q) :
             q[j] = IF j % 2 = 1 THEN terms[(j + 1) \div 2] ELSE "+"

\* C14: the saved torrent file is deleted only when delete_after_activation
\* is set and start_tsm.sh returned 0; it is kept when the script returned
\* non-zero and when the option is not set.
C14_DeleteOnlyAfterSuccess ==
  page.ret # "none" =>
    ((page.file \notin seedFiles) <=> (deleteAfter /\ page.ret = "zero"))

\* the places of the steps of the last command that do the operation
StepsOf(o) == { i \in 1..Len(steps) : steps[i].op = o }

\* the directory exists when step i is done: it exists now, and no later
\* step created it
ExistsBefore(d, i) ==
  /\ d \in dirs
  /\ \A j \in StepsOf("mkdir") : steps[j].at = d => j < i

\* C15: in a download that writes torrent bytes, the seed path and the
\* resolved destination exist before the write, the write is under the seed
\* path and not under the destination, and start_tsm.sh runs only after the
\* write, on that destination.
C15_DownloadOrder ==
  \A w \in StepsOf("write") :
    /\ steps[w].at = SeedPath
    /\ ExistsBefore(SeedPath, w)
    /\ StepsOf("run") # {}
    /\ \A r \in StepsOf("run") :
         /\ w < r
         /\ steps[r].at = dest
         /\ steps[r].at # steps[w].at
         /\ ExistsBefore(steps[r].at, w)

\* a download created its destination, wrote the file and ran the script
C15_Witness ==
  /\ StepsOf("mkdir") # {}
  /\ StepsOf("write") # {}
  /\ StepsOf("run") # {}
  /\ dest = Chars["/m"]

\* the page a URL renders: the piece after page=
PageOfUrl(u) == u[Min({ i \in DOMAIN u : u[i] = "page=" }) + 1]

\* C16: the page in the URL of a list or search line is a non-negative
\* integer: the token after -p when that token is all digits, 0 when there is
\* no -p or the token after it is not a number
C16_PageNumber ==
  url # <<>> =>
    /\ Cardinality({ i \in DOMAIN url : url[i] = "page=" }) = 1
    /\ IsNumber(PageOfUrl(url))
    /\ PageOfUrl(url) = PageOfLine(line)

C16_Witness ==
  /\ line = <<"ls", "-p", "7a">>
  /\ url = <<"torrents.php?", "page=", "0">>

\* the data rows of a page, the id in the detail link of a row
DataRows(p) == Tail(p.rows)
LinkId(row) == row.href[2]

\* a page with one header row and data rows with a detail link each
WellFormed(p) ==
  /\ p.rows # <<>>
  /\ p.rows[1] = HeaderRow
  /\ \A i \in 2..Len(p.rows) : p.rows[i].kind = "data" /\ p.rows[i].href = DetailHref(LinkId(p.rows[i]))

\* C17: a well-formed listing page with N data rows gives N records, one per
\* data row in page order, each with the id of the detail link of its row
C17_OneRecordPerRow ==
  WellFormed(page) =>
    /\ Len(records) = Len(DataRows(page))
    /\ \A i \in 1..Len(records) : records[i].id = LinkId(DataRows(page)[i])

C17_Witness ==
  /\ WellFormed(page)
  /\ Len(DataRows(page)) = MaxRows
  /\ records[1].id = "8"
  /\ records[MaxRows].id = "7"

\* the label of a discount marker
LabelOf(m) == IF m \in DOMAIN TagMap THEN TagMap[m] ELSE ""

\* C18: the record of a data row is hot iff the row has the hot marker; its
\* tag is empty when the row has no other marker and otherwise the label of
\* one of its other markers, empty for a marker the tag enum does not have
C18_TagResolution ==
  WellFormed(page) =>
    \A i \in 1..Len(records) :
      LET marks == DataRows(page)[i].marks
          others == marks \ {"hot"}
      IN /\ records[i].is_hot = ("hot" \in marks)
         /\ IF others = {} THEN records[i].tag = ""
            ELSE \E m \in others : records[i].tag = LabelOf(m)

C18_Witness ==
  /\ WellFormed(page)
  /\ Len(records) >= 1
  /\ DataRows(page)[1].marks = {"hot", "free", "twoup"}
  /\ records[1].is_hot
  /\ records[1].tag = TagMap["twoup"]

\* the line has the verb and no digit at the start of the token after it
NoIdAfterVerb(ln, verb) ==
  /\ ln # <<>>
  /\ ln[1] = verb
  /\ (Len(ln) < 2 \/ DigitRun(Chars[ln[2]]) = 0)

\* C19: a dl line without a numeric id directly after the verb does no
\* fetch, no file write and runs no process, a trm line without one runs no
\* process, and both return to the loop.
C19_NoIdNoEffect ==
  (NoIdAfterVerb(line, "dl") \/ NoIdAfterVerb(line, "trm"))
    => eff = {} /\ steps = <<>> /\ pc = "loop"

\* C20: the cookie file changes only in a startup that found no cookie file
\* and in the handling of the line `refresh`; every other line leaves it as
\* it is.
C20_CookieFileFrame ==
  [][disk' # disk =>
       \/ pc # "loop" /\ disk = NoFile
       \/ pc = "loop" /\ line' = <<"refresh">>]_vars

\* a download wrote a torrent file and ran the script, and the cookie file
\* still holds the jar the session loaded
C20_Witness ==
  /\ pc = "loop"
  /\ line \in DownloadLines
  /\ "torrent_write" \in eff
  /\ "proc" \in eff
  /\ hadFile
  /\ disk = Full(jar)

====
